---- MODULE Spec2Model ----
(***************************************************************************)
(* A state-machine model of CallSession (src/lib/stats/httpRequest.ts,     *)
(* lines 189-747): the per-call record of signalling milestones, the ICE   *)
(* gathering watchdog and the fault handlers, together with the part of    *)
(* the Client object and of the RTCSession the handlers read and write;    *)
(* and of validateCallStats (lines 33-79), the promise around its request. *)
(***************************************************************************)
EXTENDS Integers, Sequences, FiniteSets, TLC

\* ------------------------------------------------------------------ bounds
MaxTime == 2          \* getCurrentTime() ranges over 1..MaxTime
MaxCalls == 3         \* operations called on the sessions in one behaviour

\* --------------------------------------------------------------- constants
Null == "null"

\* An optional number: None for null or undefined, Some(n) for the number n.
None == <<>>
Some(n) == <<n>>

\* The two CallSession objects of the model: S and a second one, C.
Sessions == {"S", "C"}

STATE_INITIALIZED == "initialized"
STATE_RINGING == "ringing"
STATE_ANSWERED == "answered"
STATE_REJECTED == "rejected"
STATE_IGNORED == "ignored"
STATE_CANCELED == "canceled"
STATE_FAILED == "failed"
STATE_ENDED == "ended"

States == {STATE_INITIALIZED, STATE_RINGING, STATE_ANSWERED, STATE_REJECTED,
          STATE_IGNORED, STATE_CANCELED, STATE_FAILED, STATE_ENDED}

\* The states the specification calls terminal.
TerminalStates == {STATE_REJECTED, STATE_IGNORED, STATE_CANCELED, STATE_FAILED,
                   STATE_ENDED}

Times == 1..MaxTime

\* RTCPeerConnection.iceGatheringState. The connection exists from before the
\* first candidate event on, so session.connection is never null here.
IceGatheringStates == {"new", "gathering", "complete"}

\* The candidate of an icecandidate event, by the type its candidate line
\* names; Null is an event without a candidate.
CandidateTypes == {"host", "srflx", "relay", Null}

\* ------------------------------------------------------------------- state
VARIABLES
  live,                 \* the CallSession objects constructed
  callUUID,             \* CallSession.callUUID
  state,                \* CallSession.state
  connectionStages,     \* CallSession.connectionStages
  gotInitalIce,         \* CallSession.gotInitalIce
  stats,                \* CallSession.stats: None or Some(collector number)
  signallingInfo,       \* CallSession.signallingInfo
  mediaConnectionInfo,  \* CallSession.mediaConnectionInfo
  postDialDelayEndTime, \* CallSession.postDialDelayEndTime: None or Some(time)
  iceGatheringState,    \* CallSession.session.connection.iceGatheringState
  disableRtpTimeOut,    \* CallSession.session.connection.disableRtpTimeOut
  currentSession,       \* Client._currentSession
  now,                  \* the clock getCurrentTime() reads
  watchdog,             \* the timer of _onIceCandidate and the event it holds
  timersScheduled,      \* setTimeout calls made by _onIceCandidate
  candidates,           \* the candidates of the onIceCandidate calls, in order
  watchdogReady,        \* ready() calls made by the watchdog callback
  watchdogMetrics,      \* ice_timeout metrics emitted by the watchdog callback
  iceTimeoutCalls,      \* onIceTimeout calls received
  requests,             \* the validateCallStats calls: request and promise
  queries,              \* the getAudioDevicesInfo promises of onAccepted
  collectors,           \* the GetRTPStats instances created, per session
  terminated,           \* onCallTerminated notifications emitted by each session's onEnded
  calls,                \* the operations called so far
  lastCall,             \* the operation of the last step, its session and argument
  emitted               \* what the last step sent to collaborators, in order

sessionVars == <<live, callUUID, state, connectionStages, gotInitalIce, stats,
                 signallingInfo, mediaConnectionInfo, postDialDelayEndTime>>
envVars == <<iceGatheringState, disableRtpTimeOut, currentSession, now>>
iceVars == <<watchdog, timersScheduled, candidates, watchdogReady,
             watchdogMetrics, iceTimeoutCalls>>
outVars == <<queries, collectors, terminated>>
vars == <<sessionVars, envVars, iceVars, outVars, requests, calls, lastCall,
          emitted>>

\* ----------------------------------------------------------------- objects
\* A JavaScript object with optional keys is a function on the keys present.
EmptyObject == [k \in {} |-> Null]

Object(keys, values) == UNION {[D -> values] : D \in SUBSET keys}

Has(obj, k) == k \in DOMAIN obj

\* A bug a merge could have: the argument replaces the record.
SpreadOverwrite(a, b) == b

\* { ...a, ...b }
Spread(a, b) ==
  [k \in (DOMAIN a) \cup (DOMAIN b) |-> IF k \in DOMAIN b THEN b[k] ELSE a[k]]

\* JavaScript truthiness of an optional number: null, undefined and 0 are falsy.
Truthy(v) == v # None /\ v[1] # 0

\* A call: the operation, the session it is called on and its argument.
Call(op, s, arg) == <<op, s, arg>>

\* Whether call c is operation op on session s.
IsCall(c, op, s) == c[1] = op /\ c[2] = s

\* An operation is called: one more of the MaxCalls a behaviour holds.
Called == calls < MaxCalls /\ calls' = calls + 1

\* Something sent to a collaborator: its name and what it carries.
Out(name, payload) == <<name, payload>>

Direction(s) == IF s = "S" THEN "outgoing" ELSE "incoming"
Src(s) == IF s = "S" THEN "alice" ELSE "carol"
Dest(s) == IF s = "S" THEN "bob" ELSE "alice"

\* getCallInfo() of a session whose callUUID and state are u and st.
CallInfo(s, u, st) ==
  [callUUID |-> u, direction |-> Direction(s), src |-> Src(s), dest |-> Dest(s),
   state |-> st]

getCallInfo(s) == CallInfo(s, callUUID[s], state[s])

getConnectionStages(s) == connectionStages[s]

getMediaConnectionInfo(s) == mediaConnectionInfo[s]

\* A timeline entry `name@time`.
Stage(name, t) == <<name, t>>

\* ------------------------------------------------------------- construction
\* new CallSession(options): options.callUUID and options.call_initiation_time
\* are optional, and a falsy call_initiation_time is dropped.
ConstructedSignallingInfo(initTime) ==
  IF Truthy(initTime) THEN [k \in {"call_initiation_time"} |-> initTime[1]]
  ELSE EmptyObject

ConstructedCallUUID(u) == IF u # Null THEN u ELSE Null

\* The state after the constructor ran for the sessions of L, with the options
\* drawn from uuids and initTimes; the client holds no current session yet.
Constructed(L, uuids, initTimes) ==
  /\ live = L
  /\ callUUID \in [Sessions -> {ConstructedCallUUID(u) : u \in uuids \cup {Null}}]
  /\ \A s \in L : callUUID[s] \in {ConstructedCallUUID(u) : u \in uuids}
  /\ state = [s \in Sessions |-> STATE_INITIALIZED]
  /\ connectionStages = [s \in Sessions |-> <<>>]
  /\ gotInitalIce = [s \in Sessions |-> FALSE]
  /\ stats = [s \in Sessions |-> None]
  /\ signallingInfo \in
       [Sessions -> {ConstructedSignallingInfo(t) : t \in initTimes \cup {None}}]
  /\ \A s \in L :
       signallingInfo[s] \in {ConstructedSignallingInfo(t) : t \in initTimes}
  /\ mediaConnectionInfo = [s \in Sessions |-> EmptyObject]
  /\ postDialDelayEndTime = [s \in Sessions |-> None]
  /\ \A s \in Sessions \ L :
       callUUID[s] = Null /\ signallingInfo[s] = EmptyObject
  /\ iceGatheringState = [s \in Sessions |-> "new"]
  /\ disableRtpTimeOut = [s \in Sessions |-> FALSE]
  /\ currentSession = Null
  /\ now = 1
  /\ watchdog = [s \in Sessions |-> <<"none">>]
  /\ timersScheduled = [s \in Sessions |-> 0]
  /\ candidates = [s \in Sessions |-> <<>>]
  /\ watchdogReady = [s \in Sessions |-> 0]
  /\ watchdogMetrics = [s \in Sessions |-> 0]
  /\ iceTimeoutCalls = [s \in Sessions |-> 0]
  /\ queries = [s \in Sessions |-> <<>>]
  /\ collectors = [s \in Sessions |-> <<>>]
  /\ terminated = [s \in Sessions |-> 0]
  /\ requests = <<>>
  /\ calls = 0
  /\ lastCall = Call("constructor", Null, Null)
  /\ emitted = <<>>

\* ------------------------------------------------------------ HTTP helpers
\* A user name is the sequence of the parts its colons separate.
ToLowerCase(part) == IF part = "SIP" THEN "sip" ELSE part

\* validateCallStats: the user name sent, without a leading 'sip:' in any
\* case: userName.split(':')[1].
Username(userName) ==
  IF Len(userName) > 1 /\ ToLowerCase(userName[1]) = "sip"
  THEN <<userName[2]>> ELSE userName

\* resolve(value) or reject(reason) of the promise validateCallStats returns:
\* the first call settles it, a later one changes nothing.
Settle(promise, outcome, value) ==
  IF promise.status = "pending"
  THEN [status |-> outcome, value |-> value, settleCalls |-> promise.settleCalls + 1]
  ELSE [promise EXCEPT !.settleCalls = @ + 1]

\* validateCallStats(userName, password): the promise is made and the
\* request sent; the reactions run in FetchSettles and TextSettles.
ValidateCallStats(userName) ==
  /\ Called
  /\ lastCall' = Call("validateCallStats", Null, userName)
  /\ requests' = Append(requests,
                        [fetch |-> "pending", text |-> "none",
                         promise |-> [status |-> "pending", value |-> Null,
                                      settleCalls |-> 0]])
  /\ emitted' = <<Out("fetch", Username(userName))>>
  /\ UNCHANGED <<sessionVars, envVars, iceVars, outVars>>

\* The fetch of the i-th request settles: with a response whose ok is true
\* or false, or with a rejection (a network failure). The .then callback
\* starts reading an ok response's body and rejects otherwise; the .catch
\* callback rejects with the error of a failed fetch.
FetchSettles(i, outcome) ==
  /\ UNCHANGED calls
  /\ lastCall' = Call("fetchSettles", Null, outcome)
  /\ i \in DOMAIN requests
  /\ requests[i].fetch = "pending"
  /\ requests' = [requests EXCEPT ![i] =
       CASE outcome = "ok" -> [@ EXCEPT !.fetch = "ok", !.text = "pending"]
         [] outcome = "notOk" ->
              [@ EXCEPT !.fetch = "notOk",
                        !.promise = Settle(@, "rejected", "Incorrect response code")]
         [] outcome = "networkError" ->
              [@ EXCEPT !.fetch = "networkError",
                        !.promise = Settle(@, "rejected", "networkError")]]
  /\ emitted' = IF outcome = "ok" THEN <<Out("text", i)>> ELSE <<>>
  /\ UNCHANGED <<sessionVars, envVars, iceVars, outVars>>

\* response.text() of the i-th request settles: the read fails, or it gives
\* an empty body, a body that is not JSON, or a JSON body. The reaction
\* .then(responsebody => ...) has no rejection handler and is not returned to
\* the outer chain: a failed read, and JSON.parse throwing, reject only the
\* promise that .then made, which nothing observes.
TextSettles(i, body) ==
  /\ UNCHANGED calls
  /\ lastCall' = Call("textSettles", Null, body)
  /\ i \in DOMAIN requests
  /\ requests[i].text = "pending"
  /\ requests' = [requests EXCEPT ![i] =
       CASE body = "unreadable" -> [@ EXCEPT !.text = body]
         [] body = "empty" ->
              [@ EXCEPT !.text = body,
                        !.promise = Settle(@, "rejected", "Call insights is not enabled")]
         [] body = "invalidJSON" -> [@ EXCEPT !.text = body]
         [] body = "validJSON" ->
              [@ EXCEPT !.text = body,
                        !.promise = Settle(@, "fulfilled", "parsedResponseBody")]]
  /\ emitted' = <<>>
  /\ UNCHANGED <<sessionVars, envVars, iceVars, outVars>>

\* ------------------------------------------------------- setters and getters
\* A guard setCallUUID could have: an identifier already there is kept.
CallUUIDAfterSetOnce(old, u) == IF old # Null THEN old ELSE u

\* setCallUUID: this.callUUID = callUUID
CallUUIDAfterSet(old, u) == u

\* setCallUUID(callUUID)
SetCallUUID(s, u) ==
  /\ s \in live
  /\ Called
  /\ lastCall' = Call("setCallUUID", s, u)
  /\ callUUID' = [callUUID EXCEPT ![s] = CallUUIDAfterSet(@, u)]
  /\ emitted' = <<>>
  /\ UNCHANGED requests
  /\ UNCHANGED <<live, state, connectionStages, gotInitalIce, stats,
                 signallingInfo, mediaConnectionInfo, postDialDelayEndTime,
                 envVars, iceVars, outVars>>

\* setState(state)
SetState(s, st) ==
  /\ s \in live
  /\ Called
  /\ lastCall' = Call("setState", s, st)
  /\ state' = [state EXCEPT ![s] = st]
  /\ emitted' = <<>>
  /\ UNCHANGED requests
  /\ UNCHANGED <<live, callUUID, connectionStages, gotInitalIce, stats,
                 signallingInfo, mediaConnectionInfo, postDialDelayEndTime,
                 envVars, iceVars, outVars>>

\* A bug addConnectionStage could have: unshift, the entry goes to the front.
Unshift(stages, stage) == <<stage>> \o stages

\* this.connectionStages.push(stage)
Push(stages, stage) == Append(stages, stage)

\* addConnectionStage(stage)
AddConnectionStage(s, stage) ==
  /\ s \in live
  /\ Called
  /\ lastCall' = Call("addConnectionStage", s, stage)
  /\ connectionStages' = [connectionStages EXCEPT ![s] = Push(@, stage)]
  /\ emitted' = <<>>
  /\ UNCHANGED requests
  /\ UNCHANGED <<live, callUUID, state, gotInitalIce, stats,
                 signallingInfo, mediaConnectionInfo, postDialDelayEndTime,
                 envVars, iceVars, outVars>>

\* A new GetRTPStats instance: no stop() and no clearInterval received yet.
NewCollector == [stops |-> 0, cleared |-> 0]

\* setCallStats(stats), with a GetRTPStats instance made for the call
SetCallStats(s) ==
  /\ s \in live
  /\ Called
  /\ lastCall' = Call("setCallStats", s, Null)
  /\ collectors' = [collectors EXCEPT ![s] = Append(@, NewCollector)]
  /\ stats' = [stats EXCEPT ![s] = Some(Len(collectors[s]) + 1)]
  /\ emitted' = <<>>
  /\ UNCHANGED requests
  /\ UNCHANGED <<live, callUUID, state, connectionStages, gotInitalIce,
                 signallingInfo, mediaConnectionInfo, postDialDelayEndTime,
                 envVars, iceVars, queries, terminated>>

\* A bug _clearCallStats could have: the reference is kept after stop().
StatsAfterClearKept(st) == st

\* _clearCallStats: what this.stats holds afterwards.
StatsAfterClear(st) == None

\* _clearCallStats: the collectors cs of a session whose stats field is st,
\* after the two clearInterval calls and stop() (none of them when st is null).
CollectorsAfterClear(cs, st) ==
  IF st = None THEN cs
  ELSE [cs EXCEPT ![st[1]] = [stops |-> @.stops + 1, cleared |-> @.cleared + 2]]

\* clearCallStats()
ClearCallStats(s) ==
  /\ s \in live
  /\ Called
  /\ lastCall' = Call("clearCallStats", s, Null)
  /\ collectors' = [collectors EXCEPT ![s] = CollectorsAfterClear(@, stats[s])]
  /\ stats' = [stats EXCEPT ![s] = IF @ = None THEN None ELSE StatsAfterClear(@)]
  /\ emitted' = IF stats[s] = None THEN <<>>
                ELSE <<Out("clearInterval", "statsTimer"),
                       Out("clearInterval", "audioTimer"),
                       Out("stop", stats[s][1])>>
  /\ UNCHANGED requests
  /\ UNCHANGED <<live, callUUID, state, connectionStages, gotInitalIce,
                 signallingInfo, mediaConnectionInfo, postDialDelayEndTime,
                 envVars, iceVars, queries, terminated>>

\* updateSignallingInfo(object)
UpdateSignallingInfo(s, object) ==
  /\ s \in live
  /\ Called
  /\ lastCall' = Call("updateSignallingInfo", s, object)
  /\ signallingInfo' = [signallingInfo EXCEPT ![s] = Spread(@, object)]
  /\ emitted' = <<>>
  /\ UNCHANGED requests
  /\ UNCHANGED <<live, callUUID, state, connectionStages, gotInitalIce, stats,
                 mediaConnectionInfo, postDialDelayEndTime,
                 envVars, iceVars, outVars>>

\* updateMediaConnectionInfo(object)
UpdateMediaConnectionInfo(s, object) ==
  /\ s \in live
  /\ Called
  /\ lastCall' = Call("updateMediaConnectionInfo", s, object)
  /\ mediaConnectionInfo' = [mediaConnectionInfo EXCEPT ![s] = Spread(@, object)]
  /\ emitted' = <<>>
  /\ UNCHANGED requests
  /\ UNCHANGED <<live, callUUID, state, connectionStages, gotInitalIce, stats,
                 signallingInfo, postDialDelayEndTime,
                 envVars, iceVars, outVars>>

\* setPostDialDelayEndTime(time): the field after the call.
PostDialDelayEndTimeAfter(old, time) == IF ~Truthy(old) THEN Some(time) ELSE old

SetPostDialDelayEndTime(s, time) ==
  /\ s \in live
  /\ Called
  /\ lastCall' = Call("setPostDialDelayEndTime", s, time)
  /\ postDialDelayEndTime' =
       [postDialDelayEndTime EXCEPT ![s] = PostDialDelayEndTimeAfter(@, time)]
  /\ emitted' = <<>>
  /\ UNCHANGED requests
  /\ UNCHANGED <<live, callUUID, state, connectionStages, gotInitalIce, stats,
                 signallingInfo, mediaConnectionInfo,
                 envVars, iceVars, outVars>>

\* getSignallingInfo(): the conditional binds weaker than the subtraction, so
\* call_initiation_time is subtracted in the else branch only; a missing
\* call_initiation_time makes the difference NaN.
PostDialDelay(s) ==
  IF Truthy(postDialDelayEndTime[s]) THEN Some(postDialDelayEndTime[s][1])
  ELSE IF Has(signallingInfo[s], "call_initiation_time")
       THEN Some(0 - signallingInfo[s]["call_initiation_time"])
       ELSE None

getSignallingInfo(s) ==
  Spread(signallingInfo[s], [k \in {"post_dial_delay"} |-> PostDialDelay(s)])

\* A call of getSignallingInfo(): the caller receives the snapshot.
GetSignallingInfo(s) ==
  /\ s \in live
  /\ Called
  /\ lastCall' = Call("getSignallingInfo", s, Null)
  /\ emitted' = <<Out("return", getSignallingInfo(s))>>
  /\ UNCHANGED requests
  /\ UNCHANGED <<sessionVars, envVars, iceVars, outVars>>

\* ------------------------------------------------------------ collaborators
\* hangupClearance.call(client, session) of ./util: the cleanup after a call.
\* It releases the session's stats (session.clearCallStats()) and drops the
\* client's reference to the session when it is the current one.
HangupClearanceStats(st, c) ==
  [st EXCEPT ![c] = IF @ = None THEN None ELSE StatsAfterClear(@)]

HangupClearanceCollectors(cs, st, c) ==
  [cs EXCEPT ![c] = CollectorsAfterClear(@, st[c])]

HangupClearanceCurrent(cur, c) == IF cur = c THEN Null ELSE cur

\* statsCollector.call(client, session) of ./util: when stats collection is
\* on, it makes a GetRTPStats instance and binds it with setCallStats.
StatsCollectorCollectors(cs, on) == IF on THEN Append(cs, NewCollector) ELSE cs

StatsCollectorStats(cs, st, on) == IF on THEN Some(Len(cs) + 1) ELSE st

\* ------------------------------------------------------------------ handlers
\* A bug _onAccepted could have: the 200 OK marks the session answered.
StateAfterAcceptedAnswered(st) == STATE_ANSWERED

\* _onAccepted does not call setState.
StateAfterAccepted(st) == st

\* _onAccepted: the listeners, the device-info query (its reactions run
\* later, in DeviceInfoSettles), answer_time, callStart, volume streaming.
OnAccepted(s) ==
  /\ s \in live
  /\ Called
  /\ lastCall' = Call("onAccepted", s, Null)
  /\ queries' = [queries EXCEPT ![s] =
                   Append(@, [status |-> "pending", answered |-> <<>>])]
  /\ signallingInfo' = [signallingInfo EXCEPT ![s] =
                          Spread(@, [k \in {"answer_time"} |-> now])]
  /\ state' = [state EXCEPT ![s] = StateAfterAccepted(@)]
  /\ emitted' = <<Out("addCloseProtectionListeners", Null),
                  Out("getAudioDevicesInfo", Len(queries[s]) + 1),
                  Out("callStart", Null),
                  Out("startVolumeDataStreaming", Null)>>
  /\ UNCHANGED requests
  /\ UNCHANGED <<live, callUUID, connectionStages, gotInitalIce, stats,
                 mediaConnectionInfo, postDialDelayEndTime,
                 envVars, iceVars, collectors, terminated>>

\* A bug the promise chain could have: no reaction to a rejection.
AnsweredEventsNoCatch(outcome) ==
  IF outcome = "resolved" THEN <<"deviceInfo">> ELSE <<>>

\* The sendCallAnsweredEvent calls of the chain .then(...).catch(...) when the
\* query settles: with the device info, or with null.
AnsweredEvents(outcome) ==
  IF outcome = "resolved" THEN <<"deviceInfo">> ELSE <<Null>>

\* The i-th getAudioDevicesInfo promise of session s settles.
DeviceInfoSettles(s, i, outcome) ==
  /\ s \in live
  /\ UNCHANGED calls
  /\ lastCall' = Call("deviceInfoSettles", s, outcome)
  /\ i \in DOMAIN queries[s]
  /\ queries[s][i].status = "pending"
  /\ queries' = [queries EXCEPT ![s][i] =
                   [status |-> outcome,
                    answered |-> @.answered \o AnsweredEvents(outcome)]]
  /\ emitted' = [j \in DOMAIN AnsweredEvents(outcome) |->
                   Out("sendCallAnsweredEvent", AnsweredEvents(outcome)[j])]
  /\ UNCHANGED requests
  /\ UNCHANGED <<sessionVars, envVars, iceVars, collectors, terminated>>

\* _onConfirmed: this.setState(this.STATE.ANSWERED)
StateAfterConfirmed(st) == STATE_ANSWERED

\* A bug _onConfirmed could have: the notification's snapshot is taken before
\* setState.
AnsweredSnapshotStateBefore(before, after) == before

\* _onConfirmed: getCallInfo() for onCallAnswered runs after setState, so the
\* snapshot holds the state after it.
AnsweredSnapshotState(before, after) == after

\* _onConfirmed. options holds clientObject.options.disableRtpTimeOut and
\* whether stats collection is on for the client.
OnConfirmed(s, options) ==
  /\ s \in live
  /\ Called
  /\ lastCall' = Call("onConfirmed", s, Null)
  /\ connectionStages' =
       [connectionStages EXCEPT ![s] = Push(@, Stage("confirmed", now))]
  /\ state' = [state EXCEPT ![s] = StateAfterConfirmed(@)]
  /\ signallingInfo' = [signallingInfo EXCEPT ![s] =
                          Spread(@, [k \in {"call_confirmed_time"} |-> now])]
  /\ disableRtpTimeOut' =
       [disableRtpTimeOut EXCEPT ![s] = IF options.disableRtpTimeOut THEN TRUE ELSE @]
  /\ collectors' = [collectors EXCEPT ![s] =
                      StatsCollectorCollectors(@, options.collect)]
  /\ stats' = [stats EXCEPT ![s] =
                 StatsCollectorStats(collectors[s], @, options.collect)]
  /\ emitted' = <<Out("setEncodingParameters", Null),
                  Out("statsCollector", s),
                  Out("onCallAnswered",
                      CallInfo(s, callUUID[s],
                               AnsweredSnapshotState(state[s], state'[s]))),
                  Out("setTimeout", "owaNotification")>>
  /\ UNCHANGED requests
  /\ UNCHANGED <<live, callUUID, gotInitalIce, mediaConnectionInfo,
                 postDialDelayEndTime, iceGatheringState, currentSession, now,
                 iceVars, queries, terminated>>

\* A bug _onIceCandidate could have: relay candidates are taken for ready too.
IsSrflxOrRelay(type) == type \in {"srflx", "relay"}

\* _onIceCandidate: candidate && candidate.candidate.search('srflx') !== -1
IsSrflx(type) == type = "srflx"

\* A bug _onIceCandidate could have: the armed flag is not consulted.
AlreadyArmedIgnored(flag) == FALSE

\* _onIceCandidate: if (this.gotInitalIce) return
AlreadyArmed(flag) == flag

\* _onIceCandidate, for the next candidate event of the session. The timer it
\* arms holds the event, whose ready() the callback calls (WatchdogExpire).
OnIceCandidate(s, type) ==
  /\ s \in live
  /\ Called
  /\ lastCall' = Call("onIceCandidate", s, type)
  /\ candidates' = [candidates EXCEPT ![s] = Append(@, type)]
  /\ IF IsSrflx(type)
     THEN /\ emitted' = <<Out("ready", Len(candidates[s]) + 1)>>
          /\ UNCHANGED <<gotInitalIce, watchdog, timersScheduled>>
     ELSE IF AlreadyArmed(gotInitalIce[s])
     THEN /\ emitted' = <<>>
          /\ UNCHANGED <<gotInitalIce, watchdog, timersScheduled>>
     ELSE /\ gotInitalIce' = [gotInitalIce EXCEPT ![s] = TRUE]
          /\ watchdog' = [watchdog EXCEPT ![s] = <<"pending", Len(candidates[s]) + 1>>]
          /\ timersScheduled' = [timersScheduled EXCEPT ![s] = @ + 1]
          /\ emitted' = <<Out("setTimeout", "ICE_GATHERING_TIMEOUT")>>
  /\ UNCHANGED requests
  /\ UNCHANGED <<live, callUUID, state, connectionStages, stats, signallingInfo,
                 mediaConnectionInfo, postDialDelayEndTime, envVars,
                 watchdogReady, watchdogMetrics, iceTimeoutCalls, outVars>>

\* this.session is assigned by the constructor and by nothing else.
HasSession(s) == TRUE

\* A bug the callback could have: the gathering state is not consulted.
WatchdogActsAlways(s) == HasSession(s)

\* The watchdog callback goes on to ready() and the metric when the session
\* is there and its connection's gathering is not complete.
WatchdogActs(s) == HasSession(s) /\ iceGatheringState[s] # "complete"

\* A bug the timer could have: setInterval, so that it stays armed.
TimerAfterExpiryRepeats(w) == w

\* setTimeout runs its callback once: the timer w is spent afterwards.
TimerAfterExpiry(w) == <<"fired", w[2]>>

\* The callback of the timer of _onIceCandidate, ICE_GATHERING_TIMEOUT after
\* it was armed.
WatchdogExpire(s) ==
  /\ s \in live
  /\ UNCHANGED calls
  /\ lastCall' = Call("watchdogExpire", s, Null)
  /\ watchdog[s][1] = "pending"
  /\ watchdog' = [watchdog EXCEPT ![s] = TimerAfterExpiry(@)]
  /\ IF WatchdogActs(s)
     THEN /\ watchdogReady' = [watchdogReady EXCEPT ![s] = @ + 1]
          /\ watchdogMetrics' = [watchdogMetrics EXCEPT ![s] = @ + 1]
          /\ emitted' = <<Out("ready", watchdog[s][2]),
                          Out("emitMetrics", "ice_timeout")>>
     ELSE /\ emitted' = <<>>
          /\ UNCHANGED <<watchdogReady, watchdogMetrics>>
  /\ UNCHANGED requests
  /\ UNCHANGED <<sessionVars, envVars, timersScheduled, candidates,
                 iceTimeoutCalls, outVars>>

\* A bug a fault handler could have: it dispatches in its reporting branch
\* and once more after it.
FailureDispatchTwice(name, s, err) ==
  <<Out(name, <<s, err>>), Out(name, <<s, err>>)>>

\* onIceFailure.call(clientObject, this, err), and the same for
\* onMediaFailure and onSDPfailure: the one call a fault handler ends with.
FailureDispatch(name, s, err) == <<Out(name, <<s, err>>)>>

\* _onIceTimeout
OnIceTimeout(s, sec) ==
  /\ s \in live
  /\ Called
  /\ lastCall' = Call("onIceTimeout", s, sec)
  /\ iceTimeoutCalls' = [iceTimeoutCalls EXCEPT ![s] = @ + 1]
  /\ emitted' = <<Out("emitMetrics", "ice_timeout")>>
                \o FailureDispatch("onIceFailure", s, "ice_timeout")
  /\ UNCHANGED requests
  /\ UNCHANGED <<sessionVars, envVars, watchdog, timersScheduled, candidates,
                 watchdogReady, watchdogMetrics, outVars>>

\* A bug the hangup record could have: the reason holds the originator.
HangupInfoPartyAsReason(evt, t) ==
  [k \in {"hangup_time", "hangup_party", "hangup_reason"} |->
     CASE k = "hangup_time" -> t
       [] k = "hangup_party" -> evt.originator
       [] k = "hangup_reason" -> evt.originator]

\* The hangup fields _onFailed and _onEnded record.
HangupInfo(evt, t) ==
  [k \in {"hangup_time", "hangup_party", "hangup_reason"} |->
     CASE k = "hangup_time" -> t
       [] k = "hangup_party" -> evt.originator
       [] k = "hangup_reason" -> evt.cause]

\* A bug _onFailed could have: it marks the session failed.
StateAfterFailedSet(st) == STATE_FAILED

\* _onFailed does not call setState.
StateAfterFailed(st) == st

\* _onFailed
OnFailed(s, evt) ==
  /\ s \in live
  /\ Called
  /\ lastCall' = Call("onFailed", s, evt)
  /\ connectionStages' =
       [connectionStages EXCEPT ![s] = Push(@, Stage("failed", now))]
  /\ state' = [state EXCEPT ![s] = StateAfterFailed(@)]
  /\ signallingInfo' = [signallingInfo EXCEPT ![s] = Spread(@, HangupInfo(evt, now))]
  /\ stats' = HangupClearanceStats(stats, s)
  /\ collectors' = HangupClearanceCollectors(collectors, stats, s)
  /\ currentSession' = HangupClearanceCurrent(currentSession, s)
  /\ emitted' = <<Out("handleMediaError", <<evt, s>>),
                  Out("hangupClearance", s),
                  Out("stopVolumeDataStreaming", Null)>>
  /\ UNCHANGED requests
  /\ UNCHANGED <<live, callUUID, gotInitalIce, mediaConnectionInfo,
                 postDialDelayEndTime, iceGatheringState, disableRtpTimeOut, now,
                 iceVars, queries, terminated>>

\* A bug _onEnded could have: it notifies only when the session that ended
\* is the client's current one.
NotifiesTerminationOwn(s, cur) == cur = s

\* _onEnded: if (clientObject._currentSession)
NotifiesTermination(s, cur) == cur # Null

\* A bug _onEnded could have: no setState, as in _onFailed.
StateAfterEndedKept(st) == st

\* _onEnded: this.setState(this.STATE.ENDED)
StateAfterEnded(st) == STATE_ENDED

\* A bug _onEnded could have: it reports and cleans up the session that
\* ended instead of the client's current one.
TerminationSubjectOwn(s, cur) == s

\* _onEnded: the session whose getCallInfo() the notification carries and
\* that hangupClearance is run against is clientObject._currentSession.
TerminationSubject(s, cur) == cur

\* _onEnded. hasCallStats is whether clientObject.callStats is set.
OnEnded(s, evt, hasCallStats) ==
  /\ s \in live
  /\ Called
  /\ lastCall' = Call("onEnded", s, evt)
  /\ connectionStages' =
       [connectionStages EXCEPT ![s] = Push(@, Stage("ended", now))]
  /\ state' = [state EXCEPT ![s] = StateAfterEnded(@)]
  /\ signallingInfo' = [signallingInfo EXCEPT ![s] = Spread(@, HangupInfo(evt, now))]
  /\ LET cur == currentSession
         subject == TerminationSubject(s, cur)
         fabric == IF hasCallStats
                   THEN <<Out("sendFabricEvent", <<"fabricTerminated", callUUID[s]>>)>>
                   ELSE <<>>
     IN IF NotifiesTermination(s, cur)
        THEN /\ emitted' = fabric \o
                  <<Out("onCallTerminated",
                        [originator |-> evt.originator, reason |-> evt.cause,
                         info |-> CallInfo(subject, callUUID[subject],
                                           state'[subject])]),
                    Out("hangupClearance", subject),
                    Out("stopVolumeDataStreaming", Null)>>
             /\ terminated' = [terminated EXCEPT ![s] = @ + 1]
             /\ stats' = HangupClearanceStats(stats, subject)
             /\ collectors' = HangupClearanceCollectors(collectors, stats, subject)
             /\ currentSession' = HangupClearanceCurrent(cur, subject)
        ELSE /\ emitted' = fabric
             /\ UNCHANGED <<terminated, stats, collectors, currentSession>>
  /\ UNCHANGED requests
  /\ UNCHANGED <<live, callUUID, gotInitalIce, mediaConnectionInfo,
                 postDialDelayEndTime, iceGatheringState, disableRtpTimeOut, now,
                 iceVars, queries>>

\* _onGetUserMediaFailed. client holds whether clientObject.userName and
\* clientObject.callStats are set; err is the error's message.
OnGetUserMediaFailed(s, client, err) ==
  /\ s \in live
  /\ Called
  /\ lastCall' = Call("onGetUserMediaFailed", s, Null)
  /\ LET tagged == client.userName /\ client.callStats
         message == IF tagged THEN "getusermediafailed" ELSE err
     IN emitted' = (IF tagged THEN <<Out("reportError", <<"getUserMedia", message>>)>>
                    ELSE <<>>)
                   \o FailureDispatch("onMediaFailure", s, message)
  /\ UNCHANGED requests
  /\ UNCHANGED <<sessionVars, envVars, iceVars, outVars>>

\* _handlePeerConnectionFailures. client is as above and also holds whether
\* callStatscb was given; msg names the failing stage.
HandlePeerConnectionFailures(s, client, msg, err) ==
  /\ s \in live
  /\ Called
  /\ lastCall' = Call("handlePeerConnectionFailures", s, Null)
  /\ LET tagged == client.userName /\ client.callStats /\ client.callStatscb
         message == IF tagged THEN <<"peerconnection", msg>> ELSE <<err>>
     IN emitted' = (IF tagged THEN <<Out("reportError", <<"callStatscb", message>>)>>
                    ELSE <<>>)
                   \o FailureDispatch("onSDPfailure", s, message)
  /\ UNCHANGED requests
  /\ UNCHANGED <<sessionVars, envVars, iceVars, outVars>>

\* -------------------------------------------------------------- environment
\* Time passes.
Tick ==
  /\ now < MaxTime
  /\ UNCHANGED calls
  /\ lastCall' = Call("tick", Null, Null)
  /\ now' = now + 1
  /\ emitted' = <<>>
  /\ UNCHANGED requests
  /\ UNCHANGED <<sessionVars, iceGatheringState, disableRtpTimeOut,
                 currentSession, iceVars, outVars>>

\* The client makes c its current session, or drops its current session.
SetCurrentSession(c) ==
  /\ c \in live \cup {Null}
  /\ UNCHANGED calls
  /\ lastCall' = Call("setCurrentSession", c, Null)
  /\ c # currentSession
  /\ currentSession' = c
  /\ emitted' = <<>>
  /\ UNCHANGED requests
  /\ UNCHANGED <<sessionVars, iceGatheringState, disableRtpTimeOut, now,
                 iceVars, outVars>>

\* The connection's ICE gathering moves on: it starts, completes, or starts
\* again after completing.
IceGatheringChange(s) ==
  /\ s \in live
  /\ UNCHANGED calls
  /\ lastCall' = Call("iceGatheringChange", s, Null)
  /\ iceGatheringState' = [iceGatheringState EXCEPT ![s] =
       CASE @ = "new" -> "gathering"
         [] @ = "gathering" -> "complete"
         [] @ = "complete" -> "gathering"]
  /\ emitted' = <<>>
  /\ UNCHANGED requests
  /\ UNCHANGED <<sessionVars, disableRtpTimeOut, currentSession, now,
                 iceVars, outVars>>

\* ------------------------------------------------------------ specifications
\* The failed and ended events delivered: who hung up and why.
Events == {[originator |-> "local", cause |-> "Terminated"],
           [originator |-> "remote", cause |-> "Rejected"]}

ClientFlags == [userName : BOOLEAN, callStats : BOOLEAN, callStatscb : BOOLEAN]

ConfirmOptions == [disableRtpTimeOut : BOOLEAN, collect : BOOLEAN]

\* The event handlers, called on session s.
Handlers(s) ==
  \/ OnAccepted(s)
  \/ \E options \in ConfirmOptions : OnConfirmed(s, options)
  \/ \E type \in CandidateTypes : OnIceCandidate(s, type)
  \/ OnIceTimeout(s, 5)
  \/ \E evt \in Events : OnFailed(s, evt)
  \/ \E evt \in Events, hasCallStats \in BOOLEAN : OnEnded(s, evt, hasCallStats)
  \/ \E client \in ClientFlags : OnGetUserMediaFailed(s, client, "NotAllowedError")
  \/ \E client \in ClientFlags :
       HandlePeerConnectionFailures(s, client, "createofferfailed", "InvalidStateError")

\* What runs later on its own: the query's reactions, the watchdog callback.
Callbacks(s) ==
  \/ \E i \in DOMAIN queries[s], outcome \in {"resolved", "rejected"} :
       DeviceInfoSettles(s, i, outcome)
  \/ WatchdogExpire(s)

\* Spec: every event handler and callback of session S, between the client's
\* setState calls and its changes of current session; C is a second session
\* the client may hold as its current one.
Init == Constructed(Sessions, {"uuid1"}, {None})

Next ==
  \/ Handlers("S")
  \/ Callbacks("S")
  \/ \E st \in States : SetState("S", st)
  \/ \E c \in Sessions \cup {Null} : SetCurrentSession(c)

Spec == Init /\ [][Next]_vars

\* SpecIce: the candidate events of one session, its watchdog, the gathering
\* of its connection, and the ways the session ends and releases its stats.
InitIce == Constructed({"S"}, {"uuid1"}, {None})

NextIce ==
  \/ \E type \in CandidateTypes : OnIceCandidate("S", type)
  \/ WatchdogExpire("S")
  \/ IceGatheringChange("S")
  \/ SetCallStats("S")
  \/ ClearCallStats("S")
  \/ \E evt \in {[originator |-> "remote", cause |-> "Terminated"]} :
       \/ OnEnded("S", evt, FALSE)
       \/ OnFailed("S", evt)
  \/ \E c \in {"S", Null} : SetCurrentSession(c)

SpecIce == InitIce /\ [][NextIce]_vars

\* SpecAccept: acceptance and what may follow it on one session, with the
\* device-info queries settling.
SettlesS == \E i \in DOMAIN queries["S"], outcome \in {"resolved", "rejected"} :
              DeviceInfoSettles("S", i, outcome)

NextAccept ==
  \/ OnAccepted("S")
  \/ SettlesS
  \/ \E options \in ConfirmOptions : OnConfirmed("S", options)
  \/ \E evt \in Events : OnFailed("S", evt)
  \/ \E evt \in Events : OnEnded("S", evt, FALSE)
  \/ Tick

\* A pending promise of getAudioDevicesInfo settles, and the event loop then
\* runs its reactions: the settling is not postponed for ever.
SpecAccept == InitIce /\ [][NextAccept]_vars /\ WF_vars(SettlesS)

\* SpecData: the setters of one session and the handlers that write the
\* same fields, with the clock running.
Stamps == {1, 2}

SignallingObjects == Object({"ring_start_time", "answer_time"}, Stamps)

MediaObjects == Object({"stream_success", "ice_connected"}, Stamps)

InitData == Constructed({"S"}, {"uuid1"}, {None, Some(0), Some(1)})

NextData ==
  \/ \E time \in 0..MaxTime : SetPostDialDelayEndTime("S", time)
  \/ SetCallStats("S")
  \/ ClearCallStats("S")
  \/ \E object \in SignallingObjects : UpdateSignallingInfo("S", object)
  \/ \E object \in MediaObjects : UpdateMediaConnectionInfo("S", object)
  \/ OnAccepted("S")
  \/ \E options \in {[disableRtpTimeOut |-> FALSE, collect |-> TRUE]} :
       OnConfirmed("S", options)
  \/ \E evt \in {[originator |-> "remote", cause |-> "Terminated"]} :
       \/ OnEnded("S", evt, FALSE)
       \/ OnFailed("S", evt)
  \/ Tick

SpecData == InitData /\ [][NextData]_vars

\* SpecRecord: the identifier and the post-dial delay of one session: their
\* setters and the getter between the handlers that write the session's
\* record, with the clock running.
CallUUIDs == {"uuid1", "uuid2"}

InitRecord == Constructed({"S"}, {"uuid1", Null}, {None, Some(0), Some(1), Some(2)})

NextRecord ==
  \/ \E u \in CallUUIDs \cup {Null} : SetCallUUID("S", u)
  \/ \E time \in 0..MaxTime : SetPostDialDelayEndTime("S", time)
  \/ GetSignallingInfo("S")
  \/ OnAccepted("S")
  \/ \E options \in {[disableRtpTimeOut |-> FALSE, collect |-> FALSE]} :
       OnConfirmed("S", options)
  \/ \E evt \in {[originator |-> "remote", cause |-> "Terminated"]} :
       \/ OnEnded("S", evt, TRUE)
       \/ OnFailed("S", evt)
  \/ Tick

SpecRecord == InitRecord /\ [][NextRecord]_vars

\* SpecTimeline: addConnectionStage between every event handler and callback
\* of one session, with the clock running.
NextTimeline ==
  \/ AddConnectionStage("S", Stage("ringing", now))
  \/ OnAccepted("S")
  \/ \E options \in {[disableRtpTimeOut |-> TRUE, collect |-> TRUE]} :
       OnConfirmed("S", options)
  \/ \E type \in {"host", "srflx"} : OnIceCandidate("S", type)
  \/ OnIceTimeout("S", 5)
  \/ \E evt \in {[originator |-> "local", cause |-> "Canceled"]} :
       \/ OnFailed("S", evt)
       \/ OnEnded("S", evt, TRUE)
  \/ \E client \in {[userName |-> TRUE, callStats |-> TRUE, callStatscb |-> TRUE]} :
       \/ OnGetUserMediaFailed("S", client, "NotAllowedError")
       \/ HandlePeerConnectionFailures("S", client, "createofferfailed",
                                       "InvalidStateError")
  \/ Callbacks("S")
  \/ Tick

SpecTimeline == InitIce /\ [][NextTimeline]_vars

\* SpecHttp: calls of validateCallStats, with their requests and the reads of
\* the responses' bodies settling.
UserNames == {<<"alice">>, <<"SIP", "alice">>}

FetchOutcomes == {"ok", "notOk", "networkError"}

Bodies == {"unreadable", "empty", "invalidJSON", "validJSON"}

NextHttp ==
  \/ \E userName \in UserNames : ValidateCallStats(userName)
  \/ \E i \in DOMAIN requests, outcome \in FetchOutcomes : FetchSettles(i, outcome)
  \/ \E i \in DOMAIN requests, body \in Bodies : TextSettles(i, body)

SpecHttp == InitIce /\ [][NextHttp]_vars

\* SpecTwo: two sessions of one client, each with its own identifier, each
\* confirmed and ended in any order while the client changes its current
\* session, with the clock running.
InitTwo ==
  /\ Constructed(Sessions, CallUUIDs, {None})
  /\ callUUID["S"] = "uuid1"
  /\ callUUID["C"] = "uuid2"

NextTwo ==
  \/ \E s \in Sessions :
       \/ \E options \in {[disableRtpTimeOut |-> FALSE, collect |-> TRUE]} :
            OnConfirmed(s, options)
       \/ \E evt \in Events : OnEnded(s, evt, TRUE)
  \/ \E c \in Sessions \cup {Null} : SetCurrentSession(c)
  \/ Tick

SpecTwo == InitTwo /\ [][NextTwo]_vars

\* -------------------------------------------------------------------- claims
HandlerNames == {"onAccepted", "onConfirmed", "onIceCandidate", "onIceTimeout",
                 "onFailed", "onEnded", "onGetUserMediaFailed",
                 "handlePeerConnectionFailures"}

CallbackNames == {"deviceInfoSettles", "watchdogExpire"}

\* How many of the outputs e are named name.
EmittedCount(e, name) == Cardinality({i \in DOMAIN e : e[i][1] = name})

\* C1, as stated: once state is one of rejected, ignored, canceled, failed,
\* ended, every later event handler call leaves it at that value.
C1_TerminalStateIsKept ==
  [][\A s \in Sessions :
       (state[s] \in TerminalStates /\ lastCall'[2] = s
          /\ lastCall'[1] \in HandlerNames)
       => state'[s] = state[s]]_vars

\* C1, amended: once state is terminal, onAccepted, onIceCandidate,
\* onIceTimeout, onFailed, onGetUserMediaFailed, handlePeerConnectionFailures
\* and the two callbacks leave it at that value, while onConfirmed and onEnded
\* overwrite it, with answered and with ended.
C1_TerminalStateKeptUnlessOverwritten ==
  [][\A s \in Sessions :
       (state[s] \in TerminalStates /\ lastCall'[2] = s
          /\ lastCall'[1] \in HandlerNames \cup CallbackNames)
       => state'[s] = CASE lastCall'[1] = "onConfirmed" -> STATE_ANSWERED
                        [] lastCall'[1] = "onEnded" -> STATE_ENDED
                        [] OTHER -> state[s]]_vars

\* onFailed has just run on a session that was rejected, and it still is.
C1_FailedWhileRejected ==
  state["S"] = STATE_REJECTED /\ IsCall(lastCall, "onFailed", "S")

\* C2, as stated: a session on which onEnded or onFailed has run and that is
\* in a terminal state has had exactly one onCallTerminated notification.
C2_ExactlyOneTermination ==
  \A s \in Sessions :
    (state[s] \in TerminalStates /\ lastCall[2] = s
       /\ lastCall[1] \in {"onEnded", "onFailed"})
    => terminated[s] = 1

\* C2, amended: an onEnded call emits exactly one onCallTerminated when the
\* client holds a current session at that moment and none when it holds
\* none; no other handler or callback emits one, onFailed included.
C2_OneTerminationPerEndedWithCurrent ==
  [][\A s \in Sessions :
       lastCall'[2] = s =>
         LET n == IF lastCall'[1] = "onEnded" /\ currentSession # Null
                  THEN 1 ELSE 0
         IN /\ EmittedCount(emitted', "onCallTerminated") = n
            /\ terminated'[s] = terminated[s] + n]_vars

\* onEnded has just run on S and emitted its one notification.
C2_EndedNotified ==
  /\ IsCall(lastCall, "onEnded", "S")
  /\ EmittedCount(emitted, "onCallTerminated") = 1
  /\ terminated["S"] = 1

\* C3: the watchdog callback acts at most once per session; when it runs with
\* the gathering not complete it calls ready() of the candidate event that
\* armed it once and emits one ice_timeout metric.
C3_WatchdogActsOnce ==
  /\ [](\A s \in Sessions : watchdogReady[s] <= 1 /\ watchdogMetrics[s] <= 1)
  /\ [][\A s \in Sessions :
          (IsCall(lastCall', "watchdogExpire", s)
             /\ iceGatheringState[s] # "complete")
          => /\ watchdogReady'[s] = 1
             /\ watchdogMetrics'[s] = 1
             /\ emitted' = <<Out("ready", watchdog[s][2]),
                             Out("emitMetrics", "ice_timeout")>>]_vars

\* A lone host candidate armed the watchdog, which has just acted.
C3_HostCandidateTimedOut ==
  /\ candidates["S"] = <<"host">>
  /\ IsCall(lastCall, "watchdogExpire", "S")
  /\ watchdogReady["S"] = 1
  /\ watchdogMetrics["S"] = 1

C5_AtMostOneWatchdog ==
  /\ [](\A s \in Sessions :
          /\ timersScheduled[s] <= 1
          /\ gotInitalIce[s] <=> timersScheduled[s] = 1)
  /\ [][\A s \in Sessions : gotInitalIce[s] => gotInitalIce'[s]]_vars

\* Two candidates that are not srflx ones have arrived: one timer.
C5_SecondCandidateAfterArming ==
  /\ candidates["S"] = <<"host", "relay">>
  /\ IsCall(lastCall, "onIceCandidate", "S")
  /\ timersScheduled["S"] = 1

\* C6, as stated: when the watchdog expires on a session that is in a
\* terminal state and has released its stats collector (stats is null), the
\* callback calls no ready() and emits no metric.
C6_WatchdogSilentAfterRelease ==
  [][\A s \in Sessions :
       (/\ IsCall(lastCall', "watchdogExpire", s)
        /\ state[s] \in TerminalStates
        /\ stats[s] = None
        /\ \E n \in DOMAIN collectors[s] : collectors[s][n].stops >= 1)
       => /\ emitted' = <<>>
          /\ watchdogReady'[s] = watchdogReady[s]
          /\ watchdogMetrics'[s] = watchdogMetrics[s]]_vars

\* C7: each onAccepted call records answer_time at once and leaves its
\* device-info query pending; when the query settles, sendCallAnsweredEvent is
\* called exactly once, with the device info after a resolution and with null
\* after a rejection; no other step calls it; and every query's event is
\* eventually sent.
C7_AnsweredEventOncePerQuery ==
  /\ [](\A s \in Sessions : \A i \in DOMAIN queries[s] :
          queries[s][i].answered =
            CASE queries[s][i].status = "resolved" -> <<"deviceInfo">>
              [] queries[s][i].status = "rejected" -> <<Null>>
              [] OTHER -> <<>>)
  /\ [][\A s \in Sessions :
          /\ IsCall(lastCall', "onAccepted", s) =>
               /\ Has(signallingInfo'[s], "answer_time")
               /\ signallingInfo'[s]["answer_time"] = now
               /\ Len(queries'[s]) = Len(queries[s]) + 1
               /\ queries'[s][Len(queries'[s])].status = "pending"
          /\ lastCall'[2] = s =>
               EmittedCount(emitted', "sendCallAnsweredEvent") =
                 (IF lastCall'[1] = "deviceInfoSettles" THEN 1 ELSE 0)]_vars
  /\ \A s \in Sessions : \A i \in 1..MaxCalls :
       (Len(queries[s]) >= i)
         ~> (Len(queries[s]) >= i /\ Len(queries[s][i].answered) = 1)

\* The query of an onAccepted call was rejected and the event was sent with
\* null, after answer_time was recorded.
C7_AnsweredAfterRejection ==
  /\ IsCall(lastCall, "deviceInfoSettles", "S")
  /\ queries["S"][1] = [status |-> "rejected", answered |-> <<Null>>]
  /\ emitted = <<Out("sendCallAnsweredEvent", Null)>>
  /\ Has(signallingInfo["S"], "answer_time")

\* C8, as stated: once postDialDelayEndTime holds a number, 0 included, no
\* step changes it.
C8_PostDialDelayEndTimeWriteOnce ==
  [][\A s \in Sessions :
       postDialDelayEndTime[s] # None
       => postDialDelayEndTime'[s] = postDialDelayEndTime[s]]_vars

\* C9: clearCallStats on a session whose stats is null changes nothing and
\* calls nothing; on a bound collector it clears the two timers and calls
\* stop() once and leaves stats null; so no collector is stopped twice.
C9_ClearCallStatsIdempotent ==
  /\ [](\A s \in Sessions : \A n \in DOMAIN collectors[s] :
          collectors[s][n].stops <= 1 /\ collectors[s][n].cleared <= 2)
  /\ [][\A s \in Sessions :
          IsCall(lastCall', "clearCallStats", s) =>
            /\ stats'[s] = None
            /\ IF stats[s] = None
               THEN /\ emitted' = <<>>
                    /\ collectors' = collectors
                    /\ sessionVars' = sessionVars
               ELSE /\ EmittedCount(emitted', "stop") = 1
                    /\ EmittedCount(emitted', "clearInterval") = 2
                    /\ collectors'[s][stats[s][1]] = [stops |-> 1, cleared |-> 2]]_vars

\* clearCallStats has just run on stats that an earlier clearCallStats had
\* released: the collector was stopped once.
C9_ClearedTwice ==
  /\ IsCall(lastCall, "clearCallStats", "S")
  /\ emitted = <<>>
  /\ stats["S"] = None
  /\ collectors["S"] = <<[stops |-> 1, cleared |-> 2]>>
  /\ calls = 3
  /\ connectionStages["S"] = <<>>

\* after is before merged with object: the keys of object hold object's
\* values, every other key is as in before, present or absent.
IsMerge(before, object, after) ==
  /\ DOMAIN after = DOMAIN before \cup DOMAIN object
  /\ \A k \in DOMAIN object : after[k] = object[k]
  /\ \A k \in DOMAIN before \ DOMAIN object : after[k] = before[k]

\* The keys of the signalling record an operation may write.
WrittenKeys(op) ==
  CASE op = "onAccepted" -> {"answer_time"}
    [] op = "onConfirmed" -> {"call_confirmed_time"}
    [] op \in {"onFailed", "onEnded"} -> {"hangup_time", "hangup_party", "hangup_reason"}
    [] OTHER -> {}

\* C10: updateSignallingInfo and updateMediaConnectionInfo merge their
\* argument into the record key by key, and every other operation, the answer,
\* confirm and hangup handlers included, keeps every key it does not write.
C10_UpdatesAreShallowMerges ==
  [][\A s \in Sessions :
       /\ IsCall(lastCall', "updateSignallingInfo", s)
            => IsMerge(signallingInfo[s], lastCall'[3], signallingInfo'[s])
       /\ IsCall(lastCall', "updateMediaConnectionInfo", s)
            => IsMerge(mediaConnectionInfo[s], lastCall'[3], mediaConnectionInfo'[s])
       /\ lastCall'[1] # "updateSignallingInfo"
            => /\ DOMAIN signallingInfo'[s] =
                    DOMAIN signallingInfo[s]
                      \cup (IF lastCall'[2] = s THEN WrittenKeys(lastCall'[1]) ELSE {})
               /\ \A k \in DOMAIN signallingInfo[s] \ WrittenKeys(lastCall'[1]) :
                    signallingInfo'[s][k] = signallingInfo[s][k]
       /\ lastCall'[1] # "updateMediaConnectionInfo"
            => mediaConnectionInfo'[s] = mediaConnectionInfo[s]]_vars

\* An update that names one key has just run on a record that held another
\* key and a different value of the named one: both keys are there.
C10_MergedIntoEarlierFields ==
  /\ IsCall(lastCall, "updateSignallingInfo", "S")
  /\ lastCall[3] = [k \in {"ring_start_time"} |-> 2]
  /\ Has(signallingInfo["S"], "answer_time")
  /\ Has(signallingInfo["S"], "call_confirmed_time")
  /\ signallingInfo["S"]["ring_start_time"] = 2

\* C11, as stated: once callUUID is not null, no step changes it, a
\* setCallUUID call with another value or with null included.
C11_CallUUIDImmutableOnceSet ==
  [][\A s \in Sessions :
       callUUID[s] # Null => callUUID'[s] = callUUID[s]]_vars

\* C11, amended: setCallUUID(u) leaves callUUID equal to u whatever it held
\* before, null or not, and for u null too; every other operation, handler
\* and callback leaves callUUID as it was.
C11_CallUUIDChangedBySetterOnly ==
  [][\A s \in Sessions :
       callUUID'[s] = IF IsCall(lastCall', "setCallUUID", s)
                      THEN lastCall'[3] ELSE callUUID[s]]_vars

\* setCallUUID("uuid2") has just run as the second call on a session no
\* handler has touched: the identifier is uuid2.
C11_IdentifierReassigned ==
  /\ IsCall(lastCall, "setCallUUID", "S")
  /\ lastCall[3] = "uuid2"
  /\ callUUID["S"] = "uuid2"
  /\ calls = 2
  /\ signallingInfo["S"] = EmptyObject
  /\ connectionStages["S"] = <<>>
  /\ postDialDelayEndTime["S"] = None
  /\ queries["S"] = <<>>

\* The entry an operation appends to the timeline of the session it is called
\* on, when the clock reads t: none or one.
AppendedStages(call, t) ==
  CASE call[1] = "addConnectionStage" -> <<call[3]>>
    [] call[1] = "onConfirmed" -> <<Stage("confirmed", t)>>
    [] call[1] = "onFailed" -> <<Stage("failed", t)>>
    [] call[1] = "onEnded" -> <<Stage("ended", t)>>
    [] OTHER -> <<>>

\* C12: the timeline only grows at its end: each step leaves the timeline it
\* found as a prefix of the new one; addConnectionStage, onConfirmed, onFailed
\* and onEnded append one entry, every other step none.
C12_TimelineAppendOnly ==
  [][\A s \in Sessions :
       LET before == connectionStages[s]
           after == connectionStages'[s]
       IN /\ Len(after) >= Len(before)
          /\ SubSeq(after, 1, Len(before)) = before
          /\ after = before \o (IF lastCall'[2] = s
                                 THEN AppendedStages(lastCall', now)
                                 ELSE <<>>)]_vars

\* onConfirmed has just appended its entry behind one addConnectionStage
\* appended at an earlier time.
C12_ConfirmedBehindRinging ==
  /\ IsCall(lastCall, "onConfirmed", "S")
  /\ connectionStages["S"] = <<Stage("ringing", 1), Stage("confirmed", 2)>>

\* C13, as stated: getSignallingInfo of a session with call_initiation_time i
\* returns post_dial_delay = p - i when postDialDelayEndTime is p, and 0 - i
\* when it is not set.
C13_PostDialDelayIsDifference ==
  \A s \in Sessions :
    (IsCall(lastCall, "getSignallingInfo", s)
       /\ Has(signallingInfo[s], "call_initiation_time"))
    => emitted[1][2]["post_dial_delay"] =
         Some((IF postDialDelayEndTime[s] # None
               THEN postDialDelayEndTime[s][1] ELSE 0)
              - signallingInfo[s]["call_initiation_time"])

\* The reporting collaborators of the fault handlers.
FailureCollaborators == {"onIceFailure", "onMediaFailure", "onSDPfailure"}

\* The collaborator a fault handler dispatches to; Null for other steps.
CollaboratorOf(op) ==
  CASE op = "onIceTimeout" -> "onIceFailure"
    [] op = "onGetUserMediaFailed" -> "onMediaFailure"
    [] op = "handlePeerConnectionFailures" -> "onSDPfailure"
    [] OTHER -> Null

\* C14: onIceTimeout calls onIceFailure, onGetUserMediaFailed calls
\* onMediaFailure and handlePeerConnectionFailures calls onSDPfailure, each
\* exactly once per call, with the session and the error, and none of the
\* other two, whatever userName, callStats and callStatscb are; no other step
\* calls any of the three.
C14_OneDispatchPerFault ==
  [][\A s \in Sessions :
       lastCall'[2] = s =>
         /\ \A name \in FailureCollaborators :
              EmittedCount(emitted', name) =
                (IF name = CollaboratorOf(lastCall'[1]) THEN 1 ELSE 0)
         /\ \A i \in DOMAIN emitted' :
              emitted'[i][1] \in FailureCollaborators
                => /\ emitted'[i][2][1] = s
                   /\ emitted'[i][1] = "onIceFailure"
                        => emitted'[i][2][2] = "ice_timeout"
                   /\ emitted'[i][1] = "onMediaFailure"
                        => emitted'[i][2][2] \in {"getusermediafailed",
                                                  "NotAllowedError"}]_vars

\* onGetUserMediaFailed has just run with userName and callStats present: the
\* error was reported to the stats engine and dispatched once to
\* onMediaFailure.
C14_MediaFailureWithStatsEngine ==
  /\ IsCall(lastCall, "onGetUserMediaFailed", "S")
  /\ emitted = <<Out("reportError", <<"getUserMedia", "getusermediafailed">>),
                 Out("onMediaFailure", <<"S", "getusermediafailed">>)>>

\* The states before the answer.
PreAnswerStates == {STATE_INITIALIZED, STATE_RINGING}

\* C15: onConfirmed on a session that is initialized or ringing appends one
\* confirmed entry stamped with the current time, sets state to answered,
\* records call_confirmed_time, and emits exactly one onCallAnswered whose
\* snapshot shows state answered.
C15_ConfirmedAnswersThenNotifies ==
  [][\A s \in Sessions :
       (IsCall(lastCall', "onConfirmed", s) /\ state[s] \in PreAnswerStates)
       => /\ connectionStages'[s] =
               connectionStages[s] \o <<Stage("confirmed", now)>>
          /\ state'[s] = STATE_ANSWERED
          /\ Has(signallingInfo'[s], "call_confirmed_time")
          /\ signallingInfo'[s]["call_confirmed_time"] = now
          /\ EmittedCount(emitted', "onCallAnswered") = 1
          /\ \A i \in DOMAIN emitted' :
               emitted'[i][1] = "onCallAnswered"
                 => emitted'[i][2] = CallInfo(s, callUUID[s], STATE_ANSWERED)]_vars

\* onConfirmed has just run as the first call on a session, which was
\* initialized: it is answered and the notification says so.
C15_ConfirmedFromInitialized ==
  /\ IsCall(lastCall, "onConfirmed", "S")
  /\ calls = 1
  /\ state["S"] = STATE_ANSWERED
  /\ connectionStages["S"] = <<Stage("confirmed", 1)>>
  /\ \E i \in DOMAIN emitted :
       emitted[i] = Out("onCallAnswered", CallInfo("S", "uuid1", STATE_ANSWERED))

\* The fields of the signalling record written before the hangup.
EarlierFields == {"call_initiation_time", "answer_time", "call_confirmed_time"}

\* C16: onEnded(event) on an answered session leaves state ended, an ended
\* entry stamped with the current time as the timeline's last one,
\* hangup_party = event.originator and hangup_reason = event.cause, and
\* call_initiation_time, answer_time and call_confirmed_time as they were.
C16_EndedRecordsHangup ==
  [][\A s \in Sessions :
       (IsCall(lastCall', "onEnded", s) /\ state[s] = STATE_ANSWERED)
       => /\ state'[s] = STATE_ENDED
          /\ connectionStages'[s] # <<>>
          /\ connectionStages'[s][Len(connectionStages'[s])] = Stage("ended", now)
          /\ Len(connectionStages'[s]) = Len(connectionStages[s]) + 1
          /\ Has(signallingInfo'[s], "hangup_party")
          /\ signallingInfo'[s]["hangup_party"] = lastCall'[3].originator
          /\ Has(signallingInfo'[s], "hangup_reason")
          /\ signallingInfo'[s]["hangup_reason"] = lastCall'[3].cause
          /\ \A k \in EarlierFields :
               /\ Has(signallingInfo'[s], k) <=> Has(signallingInfo[s], k)
               /\ Has(signallingInfo[s], k)
                    => signallingInfo'[s][k] = signallingInfo[s][k]]_vars

\* onEnded has just run on a session that was constructed with its initiation
\* time, accepted at time 1 and confirmed at time 2.
C16_EndedAfterAnswer ==
  /\ IsCall(lastCall, "onEnded", "S")
  /\ state["S"] = STATE_ENDED
  /\ connectionStages["S"] = <<Stage("confirmed", 2), Stage("ended", 2)>>
  /\ signallingInfo["S"] =
       [k \in EarlierFields \cup {"hangup_time", "hangup_party", "hangup_reason"} |->
          CASE k = "call_initiation_time" -> 2
            [] k = "answer_time" -> 1
            [] k = "call_confirmed_time" -> 2
            [] k = "hangup_time" -> 2
            [] k = "hangup_party" -> "remote"
            [] k = "hangup_reason" -> "Terminated"]

\* C17, as stated: once the request of a validateCallStats call has had its
\* outcome (the fetch settled and, for an ok response, the read of the body
\* settled), the promise is settled, by exactly one resolve or reject:
\* fulfilled with the parsed body for an ok response with a JSON body,
\* rejected for every other outcome.
C17_ValidateCallStatsSettles ==
  \A i \in DOMAIN requests :
    (requests[i].fetch # "pending" /\ requests[i].text # "pending")
    => /\ requests[i].promise.settleCalls = 1
       /\ IF requests[i].fetch = "ok" /\ requests[i].text = "validJSON"
          THEN /\ requests[i].promise.status = "fulfilled"
               /\ requests[i].promise.value = "parsedResponseBody"
          ELSE requests[i].promise.status = "rejected"

\* C18, as stated: when onIceTimeout runs once on a session whose lone host
\* candidate armed the watchdog and whose watchdog expired with the gathering
\* incomplete, the ice_timeout diagnostics emitted for the session, by the
\* watchdog and by onIceTimeout together, number exactly one, and onIceTimeout
\* leaves state as it was.
C18_OneIceTimeoutDiagnostic ==
  [][\A s \in Sessions :
       (/\ IsCall(lastCall', "onIceTimeout", s)
        /\ candidates[s] = <<"host">>
        /\ watchdog[s][1] = "fired"
        /\ watchdogReady[s] = 1
        /\ iceTimeoutCalls[s] = 0)
       => /\ watchdogMetrics'[s]
               + Cardinality({i \in DOMAIN emitted' :
                                emitted'[i] = Out("emitMetrics", "ice_timeout")}) = 1
          /\ state'[s] = state[s]]_vars

\* C19: a watchdog that expires when the gathering is complete calls no
\* ready() and emits no metric; one that expires before calls ready() once and
\* emits one metric; a change of the gathering state, completion included,
\* calls nothing; and once the watchdog has expired no later step adds a
\* ready() or a metric of its own.
C19_WatchdogAndCompletionEitherOrder ==
  [][\A s \in Sessions :
       /\ IsCall(lastCall', "watchdogExpire", s) =>
            IF iceGatheringState[s] = "complete"
            THEN /\ emitted' = <<>>
                 /\ watchdogReady'[s] = 0
                 /\ watchdogMetrics'[s] = 0
            ELSE /\ EmittedCount(emitted', "ready") = 1
                 /\ EmittedCount(emitted', "emitMetrics") = 1
                 /\ watchdogReady'[s] = 1
                 /\ watchdogMetrics'[s] = 1
       /\ IsCall(lastCall', "iceGatheringChange", s) =>
            /\ emitted' = <<>>
            /\ watchdogReady'[s] = watchdogReady[s]
            /\ watchdogMetrics'[s] = watchdogMetrics[s]
       /\ watchdog[s][1] = "fired" =>
            /\ watchdog'[s] = watchdog[s]
            /\ watchdogReady'[s] = watchdogReady[s]
            /\ watchdogMetrics'[s] = watchdogMetrics[s]]_vars

\* The armed watchdog has just expired on a connection whose gathering had
\* completed: nothing was called.
C19_ExpiredAfterCompletion ==
  /\ IsCall(lastCall, "watchdogExpire", "S")
  /\ iceGatheringState["S"] = "complete"
  /\ watchdog["S"][1] = "fired"
  /\ emitted = <<>>
  /\ watchdogReady["S"] = 0
  /\ watchdogMetrics["S"] = 0

\* What onFailed(event) leaves in the timeline and the signalling record of
\* session s, at the time the handler read.
FailedRecorded(s, evt, t) ==
  /\ connectionStages'[s] = connectionStages[s] \o <<Stage("failed", t)>>
  /\ Has(signallingInfo'[s], "hangup_party")
  /\ signallingInfo'[s]["hangup_party"] = evt.originator
  /\ Has(signallingInfo'[s], "hangup_reason")
  /\ signallingInfo'[s]["hangup_reason"] = evt.cause

\* C20, as stated: after onFailed(event) on a session that is not in a
\* terminal state, state is failed, rejected or canceled, the timeline's last
\* entry is a failed one, and hangup_party and hangup_reason are the event's
\* originator and cause.
C20_FailedIsTerminal ==
  [][\A s \in Sessions :
       (IsCall(lastCall', "onFailed", s) /\ state[s] \notin TerminalStates)
       => /\ state'[s] \in {STATE_FAILED, STATE_REJECTED, STATE_CANCELED}
          /\ FailedRecorded(s, lastCall'[3], now)]_vars

\* C20, amended: after onFailed(event), from any state, state is what it was
\* before the call, the timeline's last entry is a failed one stamped with the
\* current time, and hangup_time, hangup_party and hangup_reason are that
\* time and the event's originator and cause.
C20_FailedRecordsHangupKeepsState ==
  [][\A s \in Sessions :
       IsCall(lastCall', "onFailed", s)
       => /\ state'[s] = state[s]
          /\ FailedRecorded(s, lastCall'[3], now)
          /\ Has(signallingInfo'[s], "hangup_time")
          /\ signallingInfo'[s]["hangup_time"] = now]_vars

\* onFailed has just run on a ringing session, which is ringing still, with
\* the failed entry and the hangup fields recorded.
C20_FailedWhileRinging ==
  /\ IsCall(lastCall, "onFailed", "S")
  /\ state["S"] = STATE_RINGING
  /\ connectionStages["S"] = <<Stage("failed", 1)>>
  /\ signallingInfo["S"] =
       HangupInfo([originator |-> "remote", cause |-> "Rejected"], 1)

\* C21: when onEnded(event) runs on session s while the client's current
\* session c is another one, the single onCallTerminated carries c's CallInfo
\* and hangupClearance is called once, on c; state ended, the ended entry and
\* the hangup fields are written on s; c's state, timeline and signalling
\* record stay as they were, and s's stats collector is not the one released.
C21_EndedReportsCurrentSession ==
  [][\A s \in Sessions : \A c \in Sessions \ {s} :
       (IsCall(lastCall', "onEnded", s) /\ currentSession = c)
       => /\ EmittedCount(emitted', "onCallTerminated") = 1
          /\ EmittedCount(emitted', "hangupClearance") = 1
          /\ \A i \in DOMAIN emitted' :
               /\ emitted'[i][1] = "onCallTerminated"
                    => /\ emitted'[i][2] =
                            [originator |-> lastCall'[3].originator,
                             reason |-> lastCall'[3].cause,
                             info |-> CallInfo(c, callUUID[c], state[c])]
                       /\ emitted'[i][2].info # CallInfo(s, callUUID[s], state'[s])
               /\ emitted'[i][1] = "hangupClearance" => emitted'[i][2] = c
          /\ state'[s] = STATE_ENDED
          /\ connectionStages'[s] = connectionStages[s] \o <<Stage("ended", now)>>
          /\ signallingInfo'[s] = Spread(signallingInfo[s], HangupInfo(lastCall'[3], now))
          /\ state'[c] = state[c]
          /\ connectionStages'[c] = connectionStages[c]
          /\ signallingInfo'[c] = signallingInfo[c]
          /\ stats'[s] = stats[s]
          /\ collectors'[s] = collectors[s]
          /\ stats'[c] = None]_vars

\* onEnded has just run on S, confirmed before, while the client's current
\* session was C, answered: the notification named C, C's collector was
\* stopped and S's was not.
C21_EndedWhileOtherCurrent ==
  /\ IsCall(lastCall, "onEnded", "S")
  /\ state["S"] = STATE_ENDED
  /\ state["C"] = STATE_ANSWERED
  /\ \E i \in DOMAIN emitted :
       /\ emitted[i][1] = "onCallTerminated"
       /\ emitted[i][2].info = CallInfo("C", "uuid2", STATE_ANSWERED)
  /\ connectionStages["C"] = <<Stage("confirmed", 1)>>
  /\ stats["S"] # None
  /\ stats["C"] = None
  /\ collectors["C"] = <<[stops |-> 1, cleared |-> 2]>>
  /\ collectors["S"] = <<[stops |-> 0, cleared |-> 0]>>

\* C22: of the event handlers and callbacks only onConfirmed and onEnded
\* write state, answered and ended, and only on the session they are called
\* on; onAccepted, onIceCandidate, the watchdog callback, onIceTimeout,
\* onFailed, onGetUserMediaFailed, handlePeerConnectionFailures and the
\* device-info reactions leave every session's state as it was, in every
\* state, so an accepted session keeps its pre-answer state until
\* onConfirmed.
C22_OnlyConfirmedAndEndedWriteState ==
  [][lastCall'[1] \in HandlerNames \cup CallbackNames
       => \A s \in Sessions :
            state'[s] =
              IF lastCall'[2] = s /\ lastCall'[1] = "onConfirmed" THEN STATE_ANSWERED
              ELSE IF lastCall'[2] = s /\ lastCall'[1] = "onEnded" THEN STATE_ENDED
              ELSE state[s]]_vars

\* onAccepted has just run on a ringing session: it is ringing still, with
\* answer_time recorded and no confirmed entry.
C22_AcceptedStillRinging ==
  /\ IsCall(lastCall, "onAccepted", "S")
  /\ state["S"] = STATE_RINGING
  /\ Has(signallingInfo["S"], "answer_time")
  /\ connectionStages["S"] = <<>>
====
